---- MODULE Spec2Model ----
(***************************************************************************)
(* Model of the code that cgen/diff.go generates: the Diff, Merge and Copy *)
(* methods of a tree of record types.  The templates are instantiated for  *)
(* the schema                                                              *)
(*                                                                         *)
(*     type Root struct { A int; N Sub; M map[int]Sub }   (IsRoot)         *)
(*     type Sub  struct { L map[int]Leaf }                                 *)
(*     type Leaf struct { C int }                                          *)
(*                                                                         *)
(* which uses every member kind of the templates (.Fields, .StructFields,  *)
(* .Maps) and has a map in the root, a map inside a nested-record field    *)
(* and a map inside the records stored in a map.                           *)
(*                                                                         *)
(* Go maps are references: a struct value holds the address of the map's   *)
(* storage.  The model keeps an explicit store `mem` of map storages, and  *)
(* a struct value holds an address into it (NilMap for a nil map).         *)
(***************************************************************************)
EXTENDS Integers, Sequences, FiniteSets, TLC

\* ---------------------------------------------------------------- bounds
\* Keys of Root.M are 1..NumKeys.
NumKeys == 2
\* Number of calls that run concurrently on one base (SpecConc).
NumCalls == 2

Keys == 1..NumKeys
\* Keys of Sub.L: one key is enough for a nested map to gain, lose or keep it.
LKeys == {1}
\* Values of the scalar fields; 0 is Go's zero value.
Scalars == {0, 1}

\* ------------------------------------------------------ map storage (Go)
\* The nil map: a map field of a zero-valued struct.
NilMap == 0

\* The map without entries.
NoEntries == [k \in {} |-> 0]

\* A store: h[a] is the content of the map at address a; w is the set of
\* addresses that were the target of a map write (m[k] = v, delete(m, k)).
EmptyMem == [h |-> <<>>, w |-> {}]

\* Content of the map at address a (a nil map reads as a map without entries).
MapOf(mem, a) == IF a = NilMap THEN NoEntries ELSE mem.h[a]

\* _, ok := m[k]
MapHas(mem, a, k) == k \in DOMAIN MapOf(mem, a)

\* make(map[K]V): the address the next allocation gets.
NewAddr(mem) == Len(mem.h) + 1

\* make(map[K]V)
MakeMap(mem) == [mem EXCEPT !.h = Append(@, NoEntries)]

\* m[k] = v on the map at address a
MapSet(mem, a, k, v) ==
    LET old == mem.h[a]
        new == [x \in DOMAIN old \cup {k} |-> IF x = k THEN v ELSE old[x]]
    IN  [h |-> [mem.h EXCEPT ![a] = new], w |-> mem.w \cup {a}]

\* delete(m, k) on the map at address a
MapDelete(mem, a, k) ==
    LET old == mem.h[a]
        new == [x \in DOMAIN old \ {k} |-> old[x]]
    IN  [h |-> [mem.h EXCEPT ![a] = new], w |-> mem.w \cup {a}]

\* m := make(map); for k, v := range src { m[k] = v }: returns the store
\* with the clone at NewAddr(mem).
MapClone(mem, src) ==
    LET c == MapOf(mem, src)
        a == NewAddr(mem)
    IN  [h |-> Append(mem.h, c),
         w |-> IF DOMAIN c = {} THEN mem.w ELSE mem.w \cup {a}]

\* ------------------------------------------------------------ the values
\* Zero-valued structs ({{.Value}}{}).
LeafZero == [C |-> 0]
SubZero == [L |-> NilMap]

\* Abstract (storage-free) values, used to draw inputs and to compare values.
LeafVals == [C : Scalars]
PartialFns(D, R) == UNION {[S -> R] : S \in SUBSET D}
SubVals == [L : PartialFns(LKeys, LeafVals)]
RootVals == [A : Scalars, N : SubVals, M : PartialFns(Keys, SubVals)]

\* The value of a struct as its caller observes it: scalars, nested records
\* and the entries of its maps, at every depth.  Two structs are equal in
\* value when these agree; a nil map and a map without entries read alike.
Sub_val(mem, s) == [L |-> MapOf(mem, s.L)]
Root_val(mem, r) ==
    [A |-> r.A,
     N |-> Sub_val(mem, r.N),
     M |-> [k \in DOMAIN MapOf(mem, r.M) |-> Sub_val(mem, MapOf(mem, r.M)[k])]]

\* Building a value in the store, every non-empty map in storage of its own
\* (a map without entries is left nil, as in a zero-valued struct).
StoreMap(mem, c) ==
    IF DOMAIN c = {} THEN [a |-> NilMap, mem |-> mem]
    ELSE [a |-> NewAddr(mem), mem |-> [mem EXCEPT !.h = Append(@, c)]]

Sub_store(mem, sv) ==
    LET r == StoreMap(mem, sv.L) IN [v |-> [L |-> r.a], mem |-> r.mem]

RECURSIVE SubMap_store(_, _, _, _)
SubMap_store(mem, mv, ks, acc) ==
    IF ks = {} THEN [c |-> acc, mem |-> mem]
    ELSE LET k == CHOOSE x \in ks : \A y \in ks : x <= y
             r == Sub_store(mem, mv[k])
         IN  SubMap_store(r.mem, mv, ks \ {k},
                 [x \in DOMAIN acc \cup {k} |-> IF x = k THEN r.v ELSE acc[x]])

Root_store(mem, rv) ==
    LET n == Sub_store(mem, rv.N)
        ms == SubMap_store(n.mem, rv.M, DOMAIN rv.M, NoEntries)
        m == StoreMap(ms.mem, ms.c)
    IN  [v |-> [A |-> rv.A, N |-> n.v, M |-> m.a], mem |-> m.mem]

\* The addresses of the maps reachable from a value.
Sub_maps(mem, s) == {s.L} \ {NilMap}
Root_maps(mem, r) ==
    ({r.M} \ {NilMap}) \cup Sub_maps(mem, r.N)
    \cup UNION {Sub_maps(mem, MapOf(mem, r.M)[k]) : k \in DOMAIN MapOf(mem, r.M)}

\* ------------------------------------------------------------ the deltas
\* A nil pointer or nil delta map; a non-nil pointer to x is <<x>>, a non-nil
\* delta map with entries f is <<f>>.
Nil == <<>>

\* len(m) == 0 and the entries of a delta map ({{.Value}}DiffMap).
DiffMapEntries(dm) == IF dm = Nil THEN NoEntries ELSE dm[1]

\* (m *DiffMap) Set(key, value)
Set(dm, key, value) ==
    LET e == DiffMapEntries(dm)
    IN  <<[x \in DOMAIN e \cup {key} |-> IF x = key THEN value ELSE e[x]]>>

\* &LeafDiff{}, &SubDiff{}, &RootDiff{}: the zero-valued delta structs.
LeafDiffZero == [C |-> Nil]
SubDiffZero == [L |-> Nil]
RootDiffZero == [A |-> Nil, N |-> Nil, M |-> Nil]

\* (m *LeafDiffMap) Nil(key)
LeafDiffMap_Nil(dm, key) == Set(dm, key, Nil)
\* (m *LeafDiffMap) Empty(key)
LeafDiffMap_Empty(dm, key) == Set(dm, key, <<LeafDiffZero>>)
\* (m *SubDiffMap) Nil(key)
SubDiffMap_Nil(dm, key) == Set(dm, key, Nil)
\* (m *SubDiffMap) Empty(key)
SubDiffMap_Empty(dm, key) == Set(dm, key, <<SubDiffZero>>)

\* (i LeafDiff) empty(), (i SubDiff) empty(), (i RootDiff) empty(): every
\* scalar slot absent, every nested slot absent or empty, every map empty.
Leaf_empty(i) == i.C = Nil
Sub_empty(i) == DOMAIN DiffMapEntries(i.L) = {}
Root_empty(i) ==
    /\ i.A = Nil
    /\ (i.N = Nil \/ Sub_empty(i.N[1]))
    /\ DOMAIN DiffMapEntries(i.M) = {}

\* ------------------------------------------------------------------ diff
\* The map section of diff, given ip[k] = oc.diff(nc) for every key k of n
\* (oc zero-valued when k is not in o) and the keys of o that n lacks: the
\* non-nil ip[k] are entered, the keys only in o get nil, and a map in which
\* nothing was entered is replaced by nil.
DiffMapOf_NoNil(ip, removedKeys) ==
    LET ck == {k \in DOMAIN ip : ip[k] /= Nil}
    IN  <<[k \in ck \cup removedKeys |-> IF k \in ck THEN ip[k] ELSE Nil]>>

DiffMapOf(ip, removedKeys) ==
    LET ck == {k \in DOMAIN ip : ip[k] /= Nil}
        e == [k \in ck \cup removedKeys |-> IF k \in ck THEN ip[k] ELSE Nil]
    IN  IF DOMAIN e = {} THEN Nil ELSE <<e>>

\* (o Leaf) diff(n Leaf) *LeafDiff
Leaf_diff(o, n) ==
    LET i == [C |-> IF n.C /= o.C THEN <<n.C>> ELSE Nil]
    IN  IF Leaf_empty(i) THEN Nil ELSE <<i>>

\* (o Sub) diff(n Sub) *SubDiff
Sub_diff(mem, o, n) ==
    LET om == MapOf(mem, o.L)
        nm == MapOf(mem, n.L)
        ip == [k \in DOMAIN nm |->
                  Leaf_diff(IF k \in DOMAIN om THEN om[k] ELSE LeafZero, nm[k])]
        i == [L |-> DiffMapOf(ip, {k \in DOMAIN om : k \notin DOMAIN nm})]
    IN  IF Sub_empty(i) THEN Nil ELSE <<i>>

\* The map section of (o Root) diff, for Root.M.
Root_diffM(mem, o, n) ==
    LET om == MapOf(mem, o.M)
        nm == MapOf(mem, n.M)
        ip == [k \in DOMAIN nm |->
                  Sub_diff(mem, IF k \in DOMAIN om THEN om[k] ELSE SubZero, nm[k])]
    IN  DiffMapOf(ip, {k \in DOMAIN om : k \notin DOMAIN nm})

\* (o Root) diff(n Root) *RootDiff
Root_diff(mem, o, n) ==
    LET i == [A |-> IF n.A /= o.A THEN <<n.A>> ELSE Nil,
              N |-> Sub_diff(mem, o.N, n.N),
              M |-> Root_diffM(mem, o, n)]
    IN  IF Root_empty(i) THEN Nil ELSE <<i>>

\* ----------------------------------------------------------------- merge
\* The state of one merge call while it runs: o is the receiver (a copy of
\* the caller's struct), changed the flag it returns, once whether the
\* sync.Once of its map field has fired, mem the store.
MergeState(mem, o) == [o |-> o, changed |-> FALSE, once |-> FALSE, mem |-> mem]

\* copyOnWrite that writes in place: it clones only a nil map.
copyOnWrite_InPlace(st, F) ==
    IF st.once THEN st
    ELSE IF st.o[F] /= NilMap THEN [st EXCEPT !.changed = TRUE, !.once = TRUE]
    ELSE [o |-> [st.o EXCEPT ![F] = NewAddr(st.mem)],
          changed |-> TRUE,
          once |-> TRUE,
          mem |-> MapClone(st.mem, st.o[F])]

\* copyOnWrite without the sync.Once: it clones on every call.
copyOnWrite_NoOnce(st, F) ==
    [o |-> [st.o EXCEPT ![F] = NewAddr(st.mem)],
     changed |-> TRUE,
     once |-> TRUE,
     mem |-> MapClone(st.mem, st.o[F])]

\* copyOnWrite{{.Field}}(): on its first call clones the map of field F into
\* a fresh map, points o.F at it and sets changed.
copyOnWrite(st, F) ==
    IF st.once THEN st
    ELSE [o |-> [st.o EXCEPT ![F] = NewAddr(st.mem)],
          changed |-> TRUE,
          once |-> TRUE,
          mem |-> MapClone(st.mem, st.o[F])]

\* (o Leaf) merge(d *LeafDiff) (Leaf, bool)
Leaf_merge(o, d) ==
    IF d = Nil THEN [v |-> o, changed |-> FALSE]
    ELSE LET hit == d[1].C /= Nil /\ d[1].C[1] /= o.C
         IN  [v |-> IF hit THEN [o EXCEPT !.C = d[1].C[1]] ELSE o,
              changed |-> hit]

\* One iteration of `for k, dc := range d.L` in (o Sub) merge.
Sub_mergeKey(st, e, k) ==
    LET dc == e[k]
        ok == MapHas(st.mem, st.o.L, k)
        c == IF ok THEN MapOf(st.mem, st.o.L)[k] ELSE LeafZero
    IN  IF dc = Nil
        THEN IF ok
             THEN LET s2 == copyOnWrite(st, "L")
                  IN  [s2 EXCEPT !.mem = MapDelete(s2.mem, s2.o.L, k)]
             ELSE st
        ELSE LET r == Leaf_merge(c, dc)
             IN  IF r.changed
                 THEN LET s2 == copyOnWrite(st, "L")
                      IN  [s2 EXCEPT !.mem = MapSet(s2.mem, s2.o.L, k, r.v)]
                 ELSE st

\* for k, dc := range d.L.  The iterations touch different keys, so the
\* order Go picks does not show in the result; the keys are taken in
\* increasing order here and in any order in the steps of SpecConc.
RECURSIVE Sub_mergeLoop(_, _, _)
Sub_mergeLoop(st, e, ks) ==
    IF ks = {} THEN st
    ELSE LET k == CHOOSE x \in ks : \A y \in ks : x <= y
         IN  Sub_mergeLoop(Sub_mergeKey(st, e, k), e, ks \ {k})

\* (o Sub) merge that reports changed for every non-nil delta.
Sub_merge_AlwaysChanged(mem, o, d) ==
    IF d = Nil THEN [v |-> o, changed |-> FALSE, mem |-> mem]
    ELSE LET e == DiffMapEntries(d[1].L)
             st == Sub_mergeLoop(MergeState(mem, o), e, DOMAIN e)
         IN  [v |-> st.o, changed |-> TRUE, mem |-> st.mem]

\* (o Sub) merge(d *SubDiff) (Sub, bool)
Sub_merge(mem, o, d) ==
    IF d = Nil THEN [v |-> o, changed |-> FALSE, mem |-> mem]
    ELSE LET e == DiffMapEntries(d[1].L)
             st == Sub_mergeLoop(MergeState(mem, o), e, DOMAIN e)
         IN  [v |-> st.o, changed |-> st.changed, mem |-> st.mem]

\* The fields section without the comparison `*d.A != o.A`.
Root_mergeFields_NoCompare(mem, o, dd) ==
    LET hit == dd.A /= Nil
        o1 == IF hit THEN [o EXCEPT !.A = dd.A[1]] ELSE o
        r == Sub_merge(mem, o1.N, dd.N)
        o2 == IF r.changed THEN [o1 EXCEPT !.N = r.v] ELSE o1
    IN  [o |-> o2, changed |-> hit \/ r.changed, once |-> FALSE, mem |-> r.mem]

\* The fields and nested-record sections of (o Root) merge, for a non-nil d.
Root_mergeFields(mem, o, dd) ==
    LET hit == dd.A /= Nil /\ dd.A[1] /= o.A
        o1 == IF hit THEN [o EXCEPT !.A = dd.A[1]] ELSE o
        r == Sub_merge(mem, o1.N, dd.N)
        o2 == IF r.changed THEN [o1 EXCEPT !.N = r.v] ELSE o1
    IN  [o |-> o2, changed |-> hit \/ r.changed, once |-> FALSE, mem |-> r.mem]

\* One iteration of `for k, dc := range d.M` in (o Root) merge.
Root_mergeKey(st, e, k) ==
    LET dc == e[k]
        ok == MapHas(st.mem, st.o.M, k)
        c == IF ok THEN MapOf(st.mem, st.o.M)[k] ELSE SubZero
    IN  IF dc = Nil
        THEN IF ok
             THEN LET s2 == copyOnWrite(st, "M")
                  IN  [s2 EXCEPT !.mem = MapDelete(s2.mem, s2.o.M, k)]
             ELSE st
        ELSE LET r == Sub_merge(st.mem, c, dc)
                 s1 == [st EXCEPT !.mem = r.mem]
             IN  IF r.changed
                 THEN LET s2 == copyOnWrite(s1, "M")
                      IN  [s2 EXCEPT !.mem = MapSet(s2.mem, s2.o.M, k, r.v)]
                 ELSE s1

\* for k, dc := range d.M, the keys in increasing order.
RECURSIVE Root_mergeLoop(_, _, _)
Root_mergeLoop(st, e, ks) ==
    IF ks = {} THEN st
    ELSE LET k == CHOOSE x \in ks : \A y \in ks : x <= y
         IN  Root_mergeLoop(Root_mergeKey(st, e, k), e, ks \ {k})

\* (o Root) merge(d *RootDiff) (Root, bool)
Root_merge(mem, o, d) ==
    IF d = Nil THEN [v |-> o, changed |-> FALSE, mem |-> mem]
    ELSE LET e == DiffMapEntries(d[1].M)
             st == Root_mergeLoop(Root_mergeFields(mem, o, d[1]), e, DOMAIN e)
         IN  [v |-> st.o, changed |-> st.changed, mem |-> st.mem]

\* ------------------------------------------------------------------ Copy
\* (o Leaf) Copy() Leaf
Leaf_Copy(o) == o

\* (o Sub) Copy() Sub
Sub_Copy(mem, o) ==
    LET src == MapOf(mem, o.L)
        a == NewAddr(mem)
        c == [k \in DOMAIN src |-> Leaf_Copy(src[k])]
    IN  [v |-> [o EXCEPT !.L = a],
         mem |-> [h |-> Append(mem.h, c),
                  w |-> IF DOMAIN c = {} THEN mem.w ELSE mem.w \cup {a}]]

\* for k, v := range o.M { copyM[k] = v.Copy() }, copyM at address a.
RECURSIVE Root_CopyLoop(_, _, _, _)
Root_CopyLoop(mem, a, src, ks) ==
    IF ks = {} THEN mem
    ELSE LET k == CHOOSE x \in ks : \A y \in ks : x <= y
             r == Sub_Copy(mem, src[k])
         IN  Root_CopyLoop(MapSet(r.mem, a, k, r.v), a, src, ks \ {k})

\* (o Root) Copy() Root: the map field is copied entry by entry; the
\* nested-record field N is returned as the struct assignment copied it.
Root_Copy(mem, o) ==
    LET src == MapOf(mem, o.M)
        a == NewAddr(mem)
    IN  [v |-> [o EXCEPT !.M = a],
         mem |-> Root_CopyLoop(MakeMap(mem), a, src, DOMAIN src)]

\* ------------------------------------------------- deltas built by hand
\* Every delta a caller can build with the delta structs and the Set, Nil
\* and Empty helpers.
Slots == {Nil} \cup {<<v>> : v \in Scalars}
LeafDiffs == [C : Slots]
LeafDiffPtrs == {Nil} \cup {<<x>> : x \in LeafDiffs}
LeafDiffMaps == {Nil} \cup {<<f>> : f \in PartialFns(LKeys, LeafDiffPtrs)}
SubDiffs == [L : LeafDiffMaps]
SubDiffPtrs == {Nil} \cup {<<x>> : x \in SubDiffs}
SubDiffMaps == {Nil} \cup {<<f>> : f \in PartialFns(Keys, SubDiffPtrs)}
RootDiffs == [A : Slots, N : SubDiffPtrs, M : SubDiffMaps]

\* ------------------------------------------------------- the state machine
VARIABLES
    mem,      \* the store of map storages
    pre,      \* the store as it was when the last operation was called
    o,        \* the receiver: the old value / the base
    n,        \* the new value given to Diff
    d,        \* the delta: *RootDiff
    res,      \* the struct the last Merge or Copy returned
    changed,  \* the flag the last merge returned
    pc,       \* what the caller has done so far
    calls     \* the calls running concurrently on o (SpecConc)

vars == <<mem, pre, o, n, d, res, changed, pc, calls>>

\* The generated code treats every key of a map alike, so the receivers are
\* drawn up to a renaming of the keys of Root.M: those whose entries, ranked
\* (no entry, then a record without entries, then by the scalar of its
\* entry), do not decrease along the keys.  The other inputs (new values,
\* deltas) are not restricted.
Rank(mv, k) ==
    IF k \notin DOMAIN mv THEN 0
    ELSE IF mv[k].L = NoEntries THEN 1
    ELSE 2 + mv[k].L[1].C
Receivers ==
    {v \in RootVals : \A j, k \in Keys : j < k => Rank(v.M, j) <= Rank(v.M, k)}

\* A caller holds a value o built in storage of its own.
Init ==
    \E ov \in Receivers :
        LET s == Root_store(EmptyMem, ov)
        IN  /\ mem = s.mem
            /\ pre = s.mem
            /\ o = s.v
            /\ n = s.v
            /\ d = Nil
            /\ res = s.v
            /\ changed = FALSE
            /\ pc = "start"
            /\ calls = <<>>

\* d := o.Diff(n) for a new value n
Diff ==
    /\ pc = "start"
    /\ \E nv \in RootVals :
        LET s == Root_store(mem, nv)
        IN  /\ mem' = s.mem
            /\ pre' = s.mem
            /\ n' = s.v
            /\ d' = Root_diff(s.mem, o, s.v)
    /\ pc' = "diffed"
    /\ UNCHANGED <<o, res, changed, calls>>

\* res, changed := o.merge(d) for the delta d = o.Diff(n) computed before
RoundTrip ==
    /\ pc = "diffed"
    /\ LET r == Root_merge(mem, o, d)
       IN  /\ res' = r.v
           /\ changed' = r.changed
           /\ mem' = r.mem
    /\ pre' = mem
    /\ pc' = "roundtrip"
    /\ UNCHANGED <<o, n, d, calls>>

\* res, changed := o.merge(&d) for a delta d the caller built by hand
\* (what the public o.Merge(d) runs)
Merge ==
    /\ pc = "start"
    /\ \E dd \in RootDiffs :
        LET r == Root_merge(mem, o, <<dd>>)
        IN  /\ d' = <<dd>>
            /\ res' = r.v
            /\ changed' = r.changed
            /\ mem' = r.mem
    /\ pre' = mem
    /\ pc' = "merged"
    /\ UNCHANGED <<o, n, calls>>

\* res := o.Copy()
Copy ==
    /\ pc = "start"
    /\ LET r == Root_Copy(mem, o)
       IN  /\ res' = r.v
           /\ mem' = r.mem
    /\ pre' = mem
    /\ pc' = "copied"
    /\ UNCHANGED <<o, n, d, changed, calls>>

\* The owner of the copy writes to a map reachable from it: an insert or
\* overwrite, or a delete.
MutateCopy ==
    /\ pc = "copied"
    /\ \E a \in Root_maps(mem, res), k \in Keys :
        \/ /\ a = res.M
           /\ \E v \in {SubZero} \cup {MapOf(mem, res.M)[x] : x \in DOMAIN MapOf(mem, res.M)} :
                mem' = MapSet(mem, a, k, v)
        \/ /\ a /= res.M
           /\ k \in LKeys
           /\ \E v \in LeafVals : mem' = MapSet(mem, a, k, v)
        \/ /\ k \in DOMAIN MapOf(mem, a)
           /\ mem' = MapDelete(mem, a, k)
    /\ pre' = mem
    /\ pc' = "mutated"
    /\ UNCHANGED <<o, n, d, res, changed, calls>>

Next == Diff \/ RoundTrip \/ Merge \/ Copy \/ MutateCopy

Spec == Init /\ [][Next]_vars

\* ------------------------------------------- concurrent calls on one base
\* NumCalls goroutines each run o.merge(d) or o.diff(n) on the same value
\* o.  A step of a call is one section of the generated method: the fields
\* and nested-record sections, or one iteration of a `range` loop, taken in
\* any order of the keys.  Each call keeps its own copy of the receiver (Go
\* passes it by value).  The maps that exist when the calls start (mem) are
\* shared by all calls; a map a call allocates is known to that call alone
\* (nothing hands its address to another goroutine), so it is kept in the
\* call's own heap, at the addresses above the shared ones.
Calls == 1..NumCalls

\* The receivers of the concurrent calls: a value with entries in every map
\* it has, so that every delete and write of a merge has a base entry to hit.
ConcReceivers ==
    {v \in Receivers :
        /\ v.A = 0
        /\ v.N.L /= NoEntries
        /\ v.M /= NoEntries
        /\ \A k \in DOMAIN v.M :
               v.M[k].L /= NoEntries /\ v.M[k].L[1].C = v.N.L[1].C}

\* The new values the calls work towards, for a receiver of value bv: bv
\* itself, the zero value, bv without its first key and with its nested map
\* emptied, bv with every scalar flipped, and the value with every key.
Flip(sv) == [L |-> [k \in DOMAIN sv.L |-> [C |-> 1 - sv.L[k].C]]]
ConcTargets(bv) ==
    LET k1 == CHOOSE k \in DOMAIN bv.M : \A j \in DOMAIN bv.M : k <= j
    IN  << bv,
           [A |-> 0, N |-> [L |-> NoEntries], M |-> NoEntries],
           [A |-> 1, N |-> [L |-> NoEntries],
            M |-> [k \in DOMAIN bv.M \ {k1} |-> bv.M[k]]],
           [A |-> 1, N |-> Flip(bv.N), M |-> [k \in DOMAIN bv.M |-> Flip(bv.M[k])]],
           [A |-> 0, N |-> bv.N, M |-> [k \in Keys |-> [L |-> [j \in LKeys |-> [C |-> 1]]]]] >>

\* A delta built by hand: an explicit-empty entry under the first key of M
\* and the nil-marker under every other key.
ConcHandDelta ==
    <<[RootDiffZero EXCEPT
         !.M = SubDiffMap_Empty(<<[k \in Keys \ {1} |-> Nil]>>, 1)]>>

\* A call before its first step.
NewCall(kind, base, target, delta) ==
    [kind |-> kind, n |-> target, d |-> delta, pc |-> "fields",
     o |-> base, chg |-> FALSE, once |-> FALSE, todo |-> {},
     i |-> RootDiffZero, out |-> Nil, heap |-> <<>>, wr |-> {}]

\* The store and the calls once the calls c..NumCalls got their inputs.  With
\* T the new values above, input j <= Len(T) is o.diff(n) for n = T[j] built
\* in storage of its own, input Len(T) + j is o.merge(d) for the delta d that
\* diff computes towards T[j], and the last input is o.merge of the delta
\* built by hand.  The calls run the same code, so their inputs are drawn up
\* to a renaming of the calls: in non-decreasing order.
RECURSIVE InitCalls(_, _, _, _, _)
InitCalls(c, from, m, base, acc) ==
    IF c > NumCalls THEN {[mem |-> m, calls |-> acc]}
    ELSE LET T == ConcTargets(Root_val(m, base))
         IN  UNION {
                 IF j <= Len(T)
                 THEN LET s == Root_store(m, T[j])
                      IN  InitCalls(c + 1, j, s.mem, base,
                              Append(acc, NewCall("diff", base, s.v, Nil)))
                 ELSE IF j <= 2 * Len(T)
                 THEN LET s == Root_store(m, T[j - Len(T)])
                      IN  InitCalls(c + 1, j, m, base,
                              Append(acc, NewCall("merge", base, base,
                                                  Root_diff(s.mem, base, s.v))))
                 ELSE InitCalls(c + 1, j, m, base,
                          Append(acc, NewCall("merge", base, base, ConcHandDelta)))
                 : j \in from..(2 * Len(T) + 1) }

InitConc ==
    \E bv \in ConcReceivers :
        LET s == Root_store(EmptyMem, bv)
        IN  \E ic \in InitCalls(1, 1, s.mem, s.v, <<>>) :
                /\ mem = ic.mem
                /\ pre = ic.mem
                /\ o = s.v
                /\ n = s.v
                /\ d = Nil
                /\ res = s.v
                /\ changed = FALSE
                /\ pc = "conc"
                /\ calls = ic.calls

\* The store as call c sees it: the shared maps, then the maps of its own;
\* with an empty write log, so that the writes of a step can be told apart.
View(c) == [h |-> mem.h \o calls[c].heap, w |-> {}]

\* The step of call c ends with the call in state cl and the store, as the
\* call sees it, m: the shared maps and the call's own maps are taken back
\* from m, and the writes of the step are added to the call's.
Commit(c, cl, m) ==
    /\ mem' = [h |-> SubSeq(m.h, 1, Len(mem.h)),
               w |-> mem.w \cup (m.w \cap (1..Len(mem.h)))]
    /\ calls' = [calls EXCEPT ![c] =
                    [cl EXCEPT !.heap = SubSeq(m.h, Len(mem.h) + 1, Len(m.h)),
                               !.wr = @ \cup m.w]]
    /\ UNCHANGED <<pre, o, n, d, res, changed, pc>>

\* merge: the nil check, the fields section and the nested-record section
MergeFields(c) ==
    /\ calls[c].kind = "merge"
    /\ calls[c].pc = "fields"
    /\ LET cl == calls[c]
       IN  IF cl.d = Nil
           THEN Commit(c, [cl EXCEPT !.pc = "done"], View(c))
           ELSE LET st == Root_mergeFields(View(c), cl.o, cl.d[1])
                    ks == DOMAIN DiffMapEntries(cl.d[1].M)
                IN  Commit(c, [cl EXCEPT !.o = st.o, !.chg = st.changed,
                                         !.todo = ks,
                                         !.pc = IF ks = {} THEN "done" ELSE "loop"],
                           st.mem)

\* merge: one iteration of `for k, dc := range d.M`
MergeKey(c, k) ==
    /\ calls[c].kind = "merge"
    /\ calls[c].pc = "loop"
    /\ k \in calls[c].todo
    /\ LET cl == calls[c]
           st == Root_mergeKey([o |-> cl.o, changed |-> cl.chg,
                                once |-> cl.once, mem |-> View(c)],
                               DiffMapEntries(cl.d[1].M), k)
       IN  Commit(c, [cl EXCEPT !.o = st.o, !.chg = st.changed,
                                !.once = st.once, !.todo = @ \ {k},
                                !.pc = IF cl.todo = {k} THEN "done" ELSE "loop"],
                  st.mem)

\* diff: the fields section, the nested-record section and make(map) for M
DiffFields(c) ==
    /\ calls[c].kind = "diff"
    /\ calls[c].pc = "fields"
    /\ LET cl == calls[c]
       IN  Commit(c, [cl EXCEPT
                        !.i = [A |-> IF cl.n.A /= cl.o.A THEN <<cl.n.A>> ELSE Nil,
                               N |-> Sub_diff(View(c), cl.o.N, cl.n.N),
                               M |-> <<NoEntries>>],
                        !.todo = DOMAIN MapOf(View(c), cl.n.M),
                        !.pc = "loop"],
                  View(c))

\* diff: one iteration of `for k, nc := range n.M`
DiffKey(c, k) ==
    /\ calls[c].kind = "diff"
    /\ calls[c].pc = "loop"
    /\ k \in calls[c].todo
    /\ LET cl == calls[c]
           om == MapOf(View(c), cl.o.M)
           ip == Sub_diff(View(c), IF k \in DOMAIN om THEN om[k] ELSE SubZero,
                          MapOf(View(c), cl.n.M)[k])
       IN  Commit(c, [cl EXCEPT
                        !.i.M = IF ip /= Nil THEN Set(@, k, ip) ELSE @,
                        !.todo = @ \ {k}],
                  View(c))

\* diff: `for k, _ := range o.M`, the len check and the empty check
DiffFinish(c) ==
    /\ calls[c].kind = "diff"
    /\ calls[c].pc = "loop"
    /\ calls[c].todo = {}
    /\ LET cl == calls[c]
           e == DiffMapEntries(cl.i.M)
           gone == {k \in DOMAIN MapOf(View(c), cl.o.M) :
                       k \notin DOMAIN MapOf(View(c), cl.n.M)}
           e2 == [k \in DOMAIN e \cup gone |-> IF k \in gone THEN Nil ELSE e[k]]
           i2 == [cl.i EXCEPT !.M = IF DOMAIN e2 = {} THEN Nil ELSE <<e2>>]
       IN  Commit(c, [cl EXCEPT !.i = i2,
                                !.out = IF Root_empty(i2) THEN Nil ELSE <<i2>>,
                                !.pc = "done"],
                  View(c))

NextConc ==
    \E c \in Calls :
        \/ MergeFields(c)
        \/ \E k \in Keys : MergeKey(c, k)
        \/ DiffFields(c)
        \/ \E k \in Keys : DiffKey(c, k)
        \/ DiffFinish(c)

SpecConc == InitConc /\ [][NextConc]_vars

\* ----------------------------------------------------------------- claims
\* The states right after a merge returned.
Merged == pc \in {"merged", "roundtrip"}
\* The addresses allocated by the last operation.
Fresh == (Len(pre.h) + 1)..Len(mem.h)
\* The entries of Root.M in the base (before the call) and in the result.
BaseM == MapOf(pre, o.M)
ResM == MapOf(mem, res.M)

\* C1: merging diff(old, new) into old yields a value equal to new.
C1_RoundTrip ==
    pc = "roundtrip" => Root_val(mem, res) = Root_val(mem, n)

\* C2: merge never mutates its base: every map that existed when merge was
\* called holds the same entries afterwards, the base reads as the same
\* value, and every write and delete of merge landed in a map it allocated.
C2_MergeKeepsBase ==
    Merged =>
        /\ \A a \in 1..Len(pre.h) : mem.h[a] = pre.h[a]
        /\ Root_val(mem, o) = Root_val(pre, o)
        /\ mem.w \subseteq Fresh

\* C2 witness: a merge that deleted one key of the base's map and rewrote
\* another one, whose record held a map that lost its key.
C2_Witness ==
    /\ pc = "merged"
    /\ DOMAIN BaseM = Keys
    /\ \E k \in Keys : k \notin DOMAIN ResM
    /\ \E k \in Keys :
        /\ k \in DOMAIN ResM
        /\ MapOf(pre, BaseM[k].L) /= NoEntries
        /\ MapOf(mem, ResM[k].L) = NoEntries

\* C3: Copy(x) equals x, shares no map storage with x at any depth, and no
\* write to a map reachable from the copy changes what x reads as.
C3_CopyIndependent ==
    /\ pc = "copied" =>
        /\ Root_val(mem, res) = Root_val(mem, o)
        /\ Root_maps(mem, res) \cap Root_maps(mem, o) = {}
    /\ pc = "mutated" => Root_val(mem, o) = Root_val(pre, o)

\* C4: diff of two equal values is nil, and at every level an equal
\* nested-record field has a nil sub-delta slot and an equal map field a nil
\* delta map.
C4_NoOpDiff ==
    pc = "diffed" =>
        /\ Root_val(mem, n) = Root_val(mem, o) => d = Nil
        /\ d /= Nil =>
            /\ Sub_val(mem, n.N) = Sub_val(mem, o.N) => d[1].N = Nil
            /\ Root_val(mem, n).M = Root_val(mem, o).M => d[1].M = Nil
            /\ d[1].N /= Nil => d[1].N[1].L /= Nil
            /\ \A k \in DOMAIN DiffMapEntries(d[1].M) :
                   LET dc == d[1].M[1][k]
                   IN  dc /= Nil => dc[1].L /= Nil

\* C4 witness: two equal values with entries in every map, diffed to nil.
C4_Witness ==
    /\ pc = "diffed"
    /\ d = Nil
    /\ DOMAIN MapOf(mem, o.M) = Keys
    /\ MapOf(mem, o.N.L) /= NoEntries
    /\ \A k \in Keys : MapOf(mem, MapOf(mem, o.M)[k].L) /= NoEntries
    /\ Root_maps(mem, o) \cap Root_maps(mem, n) = {}

\* C5: diff(old, new) is nil only if old and new are equal in value.
C5_NilOnlyIfEqual ==
    pc = "diffed" /\ d = Nil => Root_val(mem, n) = Root_val(mem, o)

\* C6: in the delta map of diff(old, new) a key carries the nil-marker
\* exactly when it is in old and not in new, a key in both with equal records
\* has no entry, every key only in new is entered with diff(zero, new[k]),
\* and no entry is an explicit-empty sub-delta.
C6_MapDeltaShape ==
    pc = "diffed" =>
        LET om == MapOf(mem, o.M)
            nm == MapOf(mem, n.M)
            e == IF d = Nil THEN NoEntries ELSE DiffMapEntries(d[1].M)
        IN  /\ \A k \in Keys :
                   (k \in DOMAIN e /\ e[k] = Nil)
                       <=> (k \in DOMAIN om /\ k \notin DOMAIN nm)
            /\ \A k \in DOMAIN om \cap DOMAIN nm :
                   Sub_val(mem, om[k]) = Sub_val(mem, nm[k]) => k \notin DOMAIN e
            /\ \A k \in DOMAIN nm \ DOMAIN om :
                   /\ k \in DOMAIN e
                   /\ e[k] /= Nil
                   /\ e[k] = Sub_diff(mem, SubZero, nm[k])
            /\ \A k \in DOMAIN e : e[k] /= Nil => ~Sub_empty(e[k][1])

\* C7: copy-on-write scope of merge.  A map of the result is storage other
\* than the base's only if its entries differ in value from the base's, and
\* then it is one freshly allocated map; every map merge allocated is part of
\* the result (no map is cloned twice); a nil delta returns the base as it
\* is; and a key the delta does not mention keeps the very record, inner map
\* included, that the base stores under it.
C7_CopyOnWriteScope ==
    Merged =>
        /\ res.M /= o.M =>
            /\ Root_val(mem, res).M /= Root_val(pre, o).M
            /\ res.M \in Fresh
        /\ res.N.L /= o.N.L =>
            /\ Sub_val(mem, res.N) /= Sub_val(pre, o.N)
            /\ res.N.L \in Fresh
        /\ \A k \in DOMAIN ResM \cap DOMAIN BaseM :
               ResM[k].L /= BaseM[k].L =>
                   /\ Sub_val(mem, ResM[k]) /= Sub_val(pre, BaseM[k])
                   /\ ResM[k].L \in Fresh
        /\ Fresh \subseteq Root_maps(mem, res)
        /\ d = Nil => res = o /\ mem = pre
        /\ d /= Nil =>
               \A k \in DOMAIN BaseM \ DOMAIN DiffMapEntries(d[1].M) :
                   k \in DOMAIN ResM /\ ResM[k] = BaseM[k]

\* C7 witness: a merge that changed the record under one key of a full map
\* and left another key, whose record holds a map, unmentioned.
C7_Witness ==
    /\ pc = "merged"
    /\ DOMAIN BaseM = Keys
    /\ res.M \in Fresh
    /\ \E k \in Keys :
        /\ k \notin DOMAIN DiffMapEntries(d[1].M)
        /\ BaseM[k].L /= NilMap
        /\ ResM[k].L = BaseM[k].L
    /\ \E k \in Keys :
        /\ k \in DOMAIN ResM
        /\ ResM[k].L /= BaseM[k].L

\* The scalar slot of the delta entered for N.L[1], if it holds a value.
SlotNL1 ==
    IF d /= Nil /\ d[1].N /= Nil /\ 1 \in DOMAIN DiffMapEntries(d[1].N[1].L)
       /\ d[1].N[1].L[1][1] /= Nil
    THEN d[1].N[1].L[1][1][1].C
    ELSE Nil

\* C9 as stated: a scalar slot holding a value makes merge overwrite the
\* field with it and return changed = true, whatever the base holds.
C9_SlotAlwaysChanges ==
    pc = "merged" /\ d[1].A /= Nil => res.A = d[1].A[1] /\ changed = TRUE

\* C9 amended: a scalar slot holding a value leaves the field equal to that
\* value; merge returns changed = true when the value differs from the
\* base's, and a delta whose slots all hold the base's own values (and that
\* has nothing else in it) returns changed = false.  Checked for Root.A and
\* for Leaf.C of the record under key 1 of N.L.
C9_SlotChangesIfDifferent ==
    pc = "merged" =>
        /\ d[1].A /= Nil =>
            /\ res.A = d[1].A[1]
            /\ d[1].A[1] /= o.A => changed = TRUE
        /\ d[1].A /= Nil /\ d[1].A[1] = o.A /\ d[1].N = Nil /\ d[1].M = Nil =>
               changed = FALSE /\ res = o
        /\ SlotNL1 /= Nil /\ 1 \in DOMAIN MapOf(pre, o.N.L) =>
            /\ MapOf(mem, res.N.L)[1].C = SlotNL1[1]
            /\ SlotNL1[1] /= MapOf(pre, o.N.L)[1].C => changed = TRUE

\* C9 witness: a merge of a delta whose A slot holds the value the base
\* already has, and one whose slot holds another value.
C9_Witness ==
    /\ pc = "merged"
    /\ d[1].A = <<o.A>>
    /\ changed = FALSE
    /\ SlotNL1 /= Nil
    /\ 1 \in DOMAIN MapOf(pre, o.N.L)

\* The delta whose only content is an explicit-empty entry under key k of M.
EmptyAt(k) == <<[RootDiffZero EXCEPT !.M = SubDiffMap_Empty(Nil, k)]>>

\* C10: merging a delta whose only content is an explicit-empty entry under
\* a key k returns the base itself (same fields, same map storage), changed
\* = false, allocates nothing and never inserts k.
C10_ExplicitEmptyIsNoOp ==
    pc = "merged" /\ (\E k \in Keys : d = EmptyAt(k)) =>
        /\ res = o
        /\ changed = FALSE
        /\ mem = pre
        /\ DOMAIN ResM = DOMAIN BaseM

\* C10 witness: an explicit-empty entry merged under a key the base lacks
\* while the base's map has another key.
C10_Witness ==
    /\ pc = "merged"
    /\ \E k \in Keys : d = EmptyAt(k) /\ k \notin DOMAIN BaseM
    /\ BaseM /= NoEntries

\* The maps that existed when the calls started: the shared ones.
Old == 1..Len(pre.h)
\* The shared maps a call can reach: through its copy of the receiver and
\* through the new value it was given.
Holds(c) ==
    (Root_maps(View(c), calls[c].o) \cup Root_maps(View(c), calls[c].n)) \cap Old

\* C8: with several merge and diff calls running concurrently on one base,
\* no call writes to a map reachable from the base, nor to any other map
\* that existed when the calls started: every write of a call goes to a map
\* the call allocated itself, so no write of a call meets a map another call
\* writes or can reach; and a call that has returned returns what it returns
\* when run alone: the same value, the same changed flag and the same maps
\* shared with the base (or the same delta).
C8_ConcurrentUseIsSafe ==
    pc = "conc" =>
        /\ mem.h = pre.h
        /\ \A c \in Calls :
            /\ calls[c].wr \cap Root_maps(pre, o) = {}
            /\ calls[c].wr \cap Old = {}
            /\ \A c2 \in Calls \ {c} :
                   (calls[c].wr \cap Old) \cap ((calls[c2].wr \cap Old) \cup Holds(c2)) = {}
        /\ \A c \in Calls :
               calls[c].pc = "done" =>
                   IF calls[c].kind = "merge"
                   THEN LET r == Root_merge(pre, o, calls[c].d)
                        IN  /\ Root_val(View(c), calls[c].o) = Root_val(r.mem, r.v)
                            /\ calls[c].chg = r.changed
                            /\ Root_maps(View(c), calls[c].o) \cap Old
                                   = Root_maps(r.mem, r.v) \cap Old
                   ELSE calls[c].out = Root_diff(pre, o, calls[c].n)

\* C8 witness: two merges of different deltas have returned, each with a map
\* M of its own from which it deleted or in which it rewrote a key, while
\* the base still has its entries.
C8_Witness ==
    /\ pc = "conc"
    /\ \E c1, c2 \in Calls :
        /\ c1 /= c2
        /\ calls[c1].kind = "merge" /\ calls[c2].kind = "merge"
        /\ calls[c1].pc = "done" /\ calls[c2].pc = "done"
        /\ calls[c1].d /= calls[c2].d
        /\ calls[c1].o.M \in calls[c1].wr
        /\ calls[c2].o.M \in calls[c2].wr
        /\ DOMAIN MapOf(View(c1), calls[c1].o.M) /= DOMAIN MapOf(mem, o.M)
    /\ MapOf(mem, o.M) = MapOf(pre, o.M)
    /\ MapOf(mem, o.M) /= NoEntries

====
